---- MODULE Spec2Model ----
(***************************************************************************)
(* Order lifecycle and webhook reconciliation of phn_gate.                 *)
(*                                                                         *)
(* The repository holds several deployable variants of server.js (one per  *)
(* gateway integration) and two variants of db.js.  One variant is         *)
(* deployed at a time: `server` names it and never changes.  Every request *)
(* handler is an async function; it runs without interruption up to each    *)
(* `await`, so every action below is one such run, and the statement a      *)
(* handler awaits is executed by the database in one atomic step.          *)
(***************************************************************************)
EXTENDS Integers, Sequences, FiniteSets, TLC

(***************************************************************************)
(* Bounds and input domains                                                *)
(***************************************************************************)
\* requests the server receives in one behaviour
MaxRequests == 4
\* the commit count of an order is not counted beyond this
MaxCounted == 2

\* SQL NULL / JS undefined where a string is expected
NULL == "NULL"

MerchantOrderIds == {"ORD-a", "ORD-b"}
\* values generateOrderNumber can return (it is random: two calls may agree)
OrderNumbers == {"ORD-20240101-111111", "ORD-20240101-222222"}
\* ISO timestamps: the gateway's payment_time and the server's clock
Times == {"t1", "t2"}
\* what new Date().toISOString() returns
Clock == {"t2"}
Amounts == {10000}
Customers == {[name |-> "asha", email |-> "a@x.in", phone |-> "900", courseId |-> "c1"]}

Statuses == {"PENDING", "SUCCESS", "FAILED"}
Terminal == {"SUCCESS", "FAILED"}

VARIABLES
    server,   \* the deployed server.js variant
    orders,   \* the rows of table `orders`
    nextId,   \* the AUTOINCREMENT counter of column id
    reqs,     \* handler slot -> the handler's position, locals and response
    commits,  \* merchant_order_id -> the "DB UPDATE DONE | Rows: 1" lines logged
    received  \* number of requests received so far

vars == <<server, orders, nextId, reqs, commits, received>>

\* Two handlers can be in progress at a time.  Every access to the table is
\* one statement the database executes atomically, so the races of the
\* program are races between two statements.
Slots == {"h1", "h2"}

(***************************************************************************)
(* The orders table (db.js)                                                *)
(***************************************************************************)
\* rows of `tbl` keyed by merchant_order_id = moid
RowsOf(tbl, moid) == {r \in tbl : r.merchant_order_id = moid}

\* SELECT * FROM orders WHERE merchant_order_id = ? ; rows[0] || null
NoRow == [id |-> 0, order_number |-> NULL, merchant_order_id |-> NULL,
          transaction_date |-> NULL, phone_number |-> NULL, email |-> NULL,
          user_name |-> NULL, course_id |-> NULL, amount_paise |-> 0,
          status |-> NULL]

getOrderByMerchantId(tbl, moid) ==
    IF RowsOf(tbl, moid) = {} THEN NoRow
    ELSE CHOOSE r \in RowsOf(tbl, moid) : \A o \in RowsOf(tbl, moid) : r.id <= o.id

\* INSERT ... VALUES (?, ?, ?, ?, ?, ?, 'PENDING')
\* ON CONFLICT(merchant_order_id) DO NOTHING
\* order_number and transaction_date are not listed: they default to NULL.
PendingRow(nid, a) ==
    [id |-> nid, order_number |-> NULL, merchant_order_id |-> a.merchantOrderId,
     transaction_date |-> NULL, phone_number |-> a.phone, email |-> a.email,
     user_name |-> a.userName, course_id |-> a.courseId,
     amount_paise |-> a.amountPaise, status |-> "PENDING"]

\* a plain INSERT on a table without the unique index
createPendingOrderNoIndex(tbl, nid, a) ==
    [orders |-> tbl \cup {PendingRow(nid, a)}, nextId |-> nid + 1,
     outcome |-> "rows1"]

\* INSERT OR REPLACE instead of ON CONFLICT DO NOTHING
createPendingOrderReplace(tbl, nid, a) ==
    [orders |-> (tbl \ RowsOf(tbl, a.merchantOrderId)) \cup {PendingRow(nid, a)},
     nextId |-> nid + 1, outcome |-> "rows1"]

createPendingOrder(tbl, nid, a) ==
    IF RowsOf(tbl, a.merchantOrderId) # {}
    THEN [orders |-> tbl, nextId |-> nid, outcome |-> "rows0"]
    ELSE [orders |-> tbl \cup {PendingRow(nid, a)}, nextId |-> nid + 1,
          outcome |-> "rows1"]

\* The statement updateOrderStatus builds.  generateOrderNumber is random,
\* so the caller supplies the value `gen` it returned.
UpdateStmt(moid, transactionTime, status, gen) ==
    [merchantOrderId |-> moid, transactionTime |-> transactionTime,
     status |-> status, isSuccess |-> (status = "SUCCESS"),
     orderNumber |-> IF status = "SUCCESS" THEN gen ELSE NULL,
     phone |-> NULL, email |-> NULL, amountPaise |-> 0]

NoStmt == [merchantOrderId |-> NULL, transactionTime |-> NULL, status |-> NULL,
           isSuccess |-> FALSE, orderNumber |-> NULL,
           phone |-> NULL, email |-> NULL, amountPaise |-> 0]

\* WHERE merchant_order_id = ? without a condition on status
MatchedAnyStatus(tbl, s) ==
    {r \in tbl : r.merchant_order_id = s.merchantOrderId}

\* WHERE merchant_order_id = ? AND status != 'SUCCESS'
MatchedNotSuccess(tbl, s) ==
    {r \in tbl : r.merchant_order_id = s.merchantOrderId /\ r.status # "SUCCESS"}

\* WHERE merchant_order_id = ? AND status != ?  (the status being written)
MatchedOtherStatus(tbl, s) ==
    {r \in tbl : r.merchant_order_id = s.merchantOrderId /\ r.status # s.status}

\* WHERE status = 'PENDING' without the condition on merchant_order_id
MatchedAllPending(tbl, s) == {r \in tbl : r.status = "PENDING"}

\* rows the WHERE clause of the UPDATE selects
Matched(tbl, s) ==
    {r \in tbl : r.merchant_order_id = s.merchantOrderId /\ r.status = "PENDING"}

\* a SET clause that leaves transaction_date alone
SetRowNoDate(r, s) ==
    IF s.isSuccess
    THEN [r EXCEPT !.status = s.status, !.order_number = s.orderNumber]
    ELSE [r EXCEPT !.status = s.status]

\* the first of two statements: status now, the other columns later
SetRowStatusOnly(r, s) == [r EXCEPT !.status = s.status]

\* the SET clause without order_number in both statements
SetRowNoNumber(r, s) ==
    [r EXCEPT !.status = s.status, !.transaction_date = s.transactionTime]

\* the row as the SET clause leaves it
SetRow(r, s) ==
    IF s.isSuccess
    THEN [r EXCEPT !.status = s.status, !.order_number = s.orderNumber,
                   !.transaction_date = s.transactionTime]
    ELSE [r EXCEPT !.status = s.status, !.transaction_date = s.transactionTime]

\* an UPDATE that adds the row when no row has the merchant_order_id
UpdatedOrInserted(tbl, s) ==
    IF RowsOf(tbl, s.merchantOrderId) = {}
    THEN tbl \cup {[NoRow EXCEPT !.id = Cardinality(tbl) + 1,
                                 !.merchant_order_id = s.merchantOrderId,
                                 !.order_number = s.orderNumber,
                                 !.transaction_date = s.transactionTime,
                                 !.status = s.status]}
    ELSE (tbl \ Matched(tbl, s)) \cup {SetRow(r, s) : r \in Matched(tbl, s)}

\* the table after the UPDATE, before constraints are checked
Updated(tbl, s) == (tbl \ Matched(tbl, s)) \cup {SetRow(r, s) : r \in Matched(tbl, s)}

\* a column order_number TEXT without UNIQUE
ViolatesCheckOnly(tbl) == \E r \in tbl : r.status \notin Statuses

\* order_number TEXT UNIQUE (NULLs are distinct) and CHECK(status IN (...))
ViolatesConstraint(tbl) ==
    \/ \E r \in tbl : r.status \notin Statuses
    \/ \E r, o \in tbl : r.id # o.id /\ r.order_number # NULL
                         /\ r.order_number = o.order_number

\* an UPDATE that is applied whatever the constraints say
updateOrderStatusUnchecked(tbl, s) ==
    [orders |-> Updated(tbl, s),
     outcome |-> IF Matched(tbl, s) = {} THEN "rows0" ELSE "rows1"]

\* db.execute of the UPDATE: atomic; a constraint error changes nothing and
\* is caught by updateOrderStatus ("DB UPDATE FAILED")
updateOrderStatus(tbl, s) ==
    IF ViolatesConstraint(Updated(tbl, s))
    THEN [orders |-> tbl, outcome |-> "error"]
    ELSE [orders |-> Updated(tbl, s),
          outcome |-> IF Matched(tbl, s) = {} THEN "rows0" ELSE "rows1"]

(***************************************************************************)
(* The older db.js of the PhonePe server (saveOrder)                       *)
(***************************************************************************)
\* the statement saveOrder builds; `gen` is what generateOrderNumber returned
SaveStmt(moid, transactionTime, phone, email, amountPaise, status, gen) ==
    [merchantOrderId |-> moid, transactionTime |-> transactionTime,
     status |-> status, isSuccess |-> (status = "SUCCESS"),
     orderNumber |-> IF status = "SUCCESS" THEN gen ELSE NULL,
     phone |-> phone, email |-> email, amountPaise |-> amountPaise]

\* the row INSERT ... VALUES adds; this schema has no user_name, course_id
SavedRow(nid, s) ==
    [id |-> nid, order_number |-> s.orderNumber,
     merchant_order_id |-> s.merchantOrderId,
     transaction_date |-> s.transactionTime, phone_number |-> s.phone,
     email |-> s.email, user_name |-> NULL, course_id |-> NULL,
     amount_paise |-> s.amountPaise, status |-> s.status]

\* ON CONFLICT(merchant_order_id) DO UPDATE SET ... = excluded....
\* the SUCCESS statement also overwrites order_number
Overwritten(r, s) ==
    [r EXCEPT !.order_number = IF s.isSuccess THEN s.orderNumber ELSE @,
              !.transaction_date = s.transactionTime,
              !.phone_number = s.phone, !.email = s.email,
              !.amount_paise = s.amountPaise, !.status = s.status]

Upserted(tbl, nid, s) ==
    IF RowsOf(tbl, s.merchantOrderId) = {}
    THEN tbl \cup {SavedRow(nid, s)}
    ELSE (tbl \ RowsOf(tbl, s.merchantOrderId))
         \cup {Overwritten(r, s) : r \in RowsOf(tbl, s.merchantOrderId)}

\* db.execute of the upsert: atomic; transaction_date is NOT NULL and
\* order_number UNIQUE; an error is caught by saveOrder ("DB SAVE FAILED")
saveOrder(tbl, nid, s) ==
    IF s.transactionTime = NULL \/ ViolatesConstraint(Upserted(tbl, nid, s))
    THEN [orders |-> tbl, nextId |-> nid, outcome |-> "error"]
    ELSE [orders |-> Upserted(tbl, nid, s),
          nextId |-> IF RowsOf(tbl, s.merchantOrderId) = {} THEN nid + 1 ELSE nid,
          outcome |-> "rows1"]

(***************************************************************************)
(* HTTP requests                                                           *)
(***************************************************************************)
\* A header (or req.rawBody) is a string, modelled as a sequence of tokens,
\* or is undefined.
Absent == [present |-> FALSE, val |-> <<>>]
Present(v) == [present |-> TRUE, val |-> v]
\* JS truthiness of a string-or-undefined: undefined and "" are falsy
Truthy(h) == h.present /\ h.val # <<>>
\* JS string conversion in `timestamp + rawBody`
ToStr(h) == IF h.present THEN h.val ELSE <<"undefined">>

SECRET_KEY == "cashfree-secret"
AttackerKey == "attacker-key"

\* a digest that covers the timestamp only, not the body that follows it
HmacOfTimestamp(key, data) == <<"hmac-sha256", key>> \o SubSeq(data, 1, 2)

\* createHmac('sha256', key).update(data).digest('base64'): the digest is a
\* symbolic term over the key and the exact data, i.e. SHA-256 is taken to be
\* collision free; it is not the data itself and depends on every token of it.
Hmac(key, data) == <<"hmac-sha256", key>> \o data

\* The timestamp the gateway sends with a delivery
GatewayTimestamp == <<"1", "7">>

\* Raw JSON bodies, as token sequences <<type, order_id, payment_status,
\* payment_time>>; shorter sequences are bodies without data.payment
\* (length 2) or without data (length 1).  payment_time "" is an absent field.
\* Every kind of body is sent for ORD-a; for ORD-b the success notification.
WebhookTypes == {"PAYMENT_SUCCESS_WEBHOOK", "PAYMENT_FAILED_WEBHOOK",
                 "PAYMENT_USER_DROPPED_WEBHOOK", "REFUND_STATUS_WEBHOOK"}

WebhookBodies ==
    {<<"PAYMENT_SUCCESS_WEBHOOK", o, "SUCCESS", "t1">> : o \in MerchantOrderIds}
    \cup {<<"PAYMENT_SUCCESS_WEBHOOK", "ORD-a", "FAILED", "t1">>,
          <<"PAYMENT_SUCCESS_WEBHOOK", "ORD-a", "SUCCESS", "">>}
    \cup {<<ty, "ORD-a">> : ty \in WebhookTypes \ {"PAYMENT_SUCCESS_WEBHOOK"}}
    \cup {<<"PAYMENT_SUCCESS_WEBHOOK">>}

\* bodyParser.json: req.body is the parsed raw body ({} when there is none)
JsonParse(raw) ==
    LET b == IF raw.present THEN raw.val ELSE <<>> IN
    [type |-> IF Len(b) >= 1 THEN b[1] ELSE NULL,
     hasData |-> Len(b) >= 2,
     hasPayment |-> Len(b) >= 4,
     order_id |-> IF Len(b) >= 2 THEN b[2] ELSE NULL,
     payment_status |-> IF Len(b) >= 4 THEN b[3] ELSE NULL,
     payment_time |-> IF Len(b) >= 4 THEN b[4] ELSE ""]

\* The webhook requests a Cashfree server can receive: genuine deliveries,
\* deliveries replayed with a header or the body stripped, and requests
\* signed without the secret.
SignaturesFor(b) ==
    {Absent, Present(Hmac(SECRET_KEY, GatewayTimestamp \o b)),
     Present(Hmac(AttackerKey, GatewayTimestamp \o b))}

WebhookRequests ==
    UNION {{[signature |-> sg, timestamp |-> ts, rawBody |-> Present(b)] :
              ts \in {Absent, Present(GatewayTimestamp)}, sg \in SignaturesFor(b)} :
           b \in WebhookBodies}
    \cup {[signature |-> Present(Hmac(SECRET_KEY, GatewayTimestamp \o b)),
            timestamp |-> Present(GatewayTimestamp), rawBody |-> Absent] :
           b \in {<<"PAYMENT_SUCCESS_WEBHOOK">>}}

(***************************************************************************)
(* Webhook handlers: what one uninterrupted run of a handler decides       *)
(***************************************************************************)
\* res.status(code) sent before any store call
Reply(verified, code, p) ==
    [verified |-> verified, response |-> code, type |-> p.type,
     orderId |-> NULL, stmt |-> NoStmt]
\* await updateOrderStatus(...) / saveOrder(...): the statement is sent and
\* the handler waits
Call(p, s) ==
    [verified |-> "ok", response |-> 0, type |-> p.type,
     orderId |-> s.merchantOrderId, stmt |-> s]

NoPayload == JsonParse(Absent)

\* payload.data.payment.payment_time || new Date().toISOString()
PaymentTimeOr(p, now) == IF p.payment_time # "" THEN p.payment_time ELSE now

\* the payload branches with every other notification type taken as a failure
ProcessPayloadOtherFails(p, now, gen, caught) ==
    IF p.type = "PAYMENT_SUCCESS_WEBHOOK"
    THEN IF ~p.hasPayment
         THEN Reply("ok", caught, p)
         ELSE Call(p, UpdateStmt(p.order_id, PaymentTimeOr(p, now),
                   IF p.payment_status = "SUCCESS" THEN "SUCCESS" ELSE "FAILED",
                   gen))
    ELSE IF ~p.hasData
    THEN Reply("ok", caught, p)
    ELSE Call(p, UpdateStmt(p.order_id, now, "FAILED", gen))

\* the payload branches shared by the Cashfree handlers that map
\* payment_status: a TypeError on a missing payload.data(.payment) goes to
\* the outer catch, which answers `caught`
ProcessPayload(p, now, gen, caught) ==
    IF p.type = "PAYMENT_SUCCESS_WEBHOOK"
    THEN IF ~p.hasPayment
         THEN Reply("ok", caught, p)
         ELSE Call(p, UpdateStmt(p.order_id, PaymentTimeOr(p, now),
                   IF p.payment_status = "SUCCESS" THEN "SUCCESS" ELSE "FAILED",
                   gen))
    ELSE IF p.type = "PAYMENT_FAILED_WEBHOOK"
    THEN IF ~p.hasData
         THEN Reply("ok", caught, p)
         ELSE Call(p, UpdateStmt(p.order_id, now, "FAILED", gen))
    ELSE Reply("ok", 200, p)

\* the handler without the comparison of the two signatures
ManualWebhookUnverified(req, now, gen) ==
    IF ~Truthy(req.signature) \/ ~Truthy(req.timestamp) \/ ~Truthy(req.rawBody)
    THEN Reply("missing", 400, NoPayload)
    ELSE ProcessPayload(JsonParse(req.rawBody), now, gen, 200)

\* the handler verifying only a signature that is present
ManualWebhookOptionalSignature(req, now, gen) ==
    IF Truthy(req.signature)
       /\ Hmac(SECRET_KEY, ToStr(req.timestamp) \o ToStr(req.rawBody)) # req.signature.val
    THEN Reply("mismatch", 400, NoPayload)
    ELSE ProcessPayload(JsonParse(req.rawBody), now, gen, 200)

\* src/server.js POST /api/cashfree/webhook: header check, manual HMAC
ManualWebhook(req, now, gen) ==
    IF ~Truthy(req.signature) \/ ~Truthy(req.timestamp) \/ ~Truthy(req.rawBody)
    THEN Reply("missing", 400, NoPayload)
    ELSE IF Hmac(SECRET_KEY, req.timestamp.val \o req.rawBody.val) # req.signature.val
    THEN Reply("mismatch", 400, NoPayload)
    ELSE ProcessPayload(JsonParse(req.rawBody), now, gen, 200)

\* Cashfree.PGVerifyWebhookSignature(signature, rawBody, timestamp) of the
\* cashfree-pg SDK: throws unless the signature is the HMAC, under
\* XClientSecret, of timestamp + rawBody
PGVerifyWebhookSignature(signature, rawBody, timestamp) ==
    signature.present
    /\ signature.val = Hmac(SECRET_KEY, ToStr(timestamp) \o ToStr(rawBody))

\* first SDK server: no header check; the outer catch answers 500
SdkWebhook(req, now, gen) ==
    IF ~PGVerifyWebhookSignature(req.signature, req.rawBody, req.timestamp)
    THEN Reply("mismatch", 400, NoPayload)
    ELSE ProcessPayload(JsonParse(req.rawBody), now, gen, 500)

\* second SDK server: header check, SDK verification, catch answers 200
Sdk2Webhook(req, now, gen) ==
    IF ~Truthy(req.signature) \/ ~Truthy(req.timestamp) \/ ~Truthy(req.rawBody)
    THEN Reply("missing", 400, NoPayload)
    ELSE IF ~PGVerifyWebhookSignature(req.signature, req.rawBody, req.timestamp)
    THEN Reply("mismatch", 400, NoPayload)
    ELSE ProcessPayload(JsonParse(req.rawBody), now, gen, 200)

\* the last server with a dropped payment marked as failed
FullWebhookDroppedFails(req, now, gen) ==
    IF ~Truthy(req.signature) \/ ~Truthy(req.timestamp) \/ ~Truthy(req.rawBody)
    THEN Reply("missing", 400, NoPayload)
    ELSE IF Hmac(SECRET_KEY, req.timestamp.val \o req.rawBody.val) # req.signature.val
    THEN Reply("mismatch", 400, NoPayload)
    ELSE LET p == JsonParse(req.rawBody) IN
         IF p.type = "PAYMENT_USER_DROPPED_WEBHOOK"
         THEN Call(p, UpdateStmt(p.order_id, now, "FAILED", gen))
         ELSE ProcessPayload(p, now, gen, 200)

\* last server: as src/server.js plus a PAYMENT_USER_DROPPED_WEBHOOK branch
\* that reads payload.data.order.order_id and leaves the order alone
FullWebhook(req, now, gen) ==
    IF ~Truthy(req.signature) \/ ~Truthy(req.timestamp) \/ ~Truthy(req.rawBody)
    THEN Reply("missing", 400, NoPayload)
    ELSE IF Hmac(SECRET_KEY, req.timestamp.val \o req.rawBody.val) # req.signature.val
    THEN Reply("mismatch", 400, NoPayload)
    ELSE LET p == JsonParse(req.rawBody) IN
         IF p.type = "PAYMENT_USER_DROPPED_WEBHOOK"
         THEN Reply("ok", 200, p)
         ELSE ProcessPayload(p, now, gen, 200)

\* axios server: checks the two headers only; order id by optional chaining;
\* PAYMENT_SUCCESS_WEBHOOK always means SUCCESS
AxiosWebhook(req, now, gen) ==
    IF ~Truthy(req.signature) \/ ~Truthy(req.timestamp)
    THEN Reply("missing", 400, NoPayload)
    ELSE IF Hmac(SECRET_KEY, req.timestamp.val \o ToStr(req.rawBody)) # req.signature.val
    THEN Reply("mismatch", 400, NoPayload)
    ELSE LET p == JsonParse(req.rawBody) IN
         IF ~p.hasData
         THEN Reply("ok", 200, p)
         ELSE IF p.type = "PAYMENT_SUCCESS_WEBHOOK"
         THEN IF ~p.hasPayment
              THEN Reply("ok", 200, p)
              ELSE Call(p, UpdateStmt(p.order_id, PaymentTimeOr(p, now), "SUCCESS", gen))
         ELSE IF p.type = "PAYMENT_FAILED_WEBHOOK"
         THEN Call(p, UpdateStmt(p.order_id, now, "FAILED", gen))
         ELSE Reply("ok", 200, p)

(***************************************************************************)
(* PhonePe server: POST /api/phonepe/webhook                               *)
(***************************************************************************)
CALLBACK_USERNAME == "cb-user"
CALLBACK_PASSWORD == "cb-pass"

\* SHA-256 as a collision-free symbolic digest
Sha256(data) == <<"sha256">> \o data

\* phonepeClient.validateCallback of pg-sdk-node: throws unless the
\* Authorization header is SHA256(username:password)
validateCallback(username, password, authHeader) ==
    authHeader = Sha256(<<username, ":", password>>)

\* payload.amount of a callback: the gateway's figure, which need not be
\* the amount of an earlier callback for the same order
CallbackAmounts == {10000, 9900}

\* bodies <<type, merchantOrderId, paymentState, transactionTime>>
PhonePeBodies ==
    {<<"CHECKOUT_ORDER", o, st, "t1">> :
        o \in MerchantOrderIds, st \in {"COMPLETED", "FAILED"}}

\* the Authorization header travels as `signature`; there is no timestamp
PhonePeRequests ==
    {[signature |-> a, timestamp |-> Absent, rawBody |-> Present(b)] :
        b \in PhonePeBodies,
        a \in {Absent, Present(Sha256(<<CALLBACK_USERNAME, ":", CALLBACK_PASSWORD>>)),
               Present(Sha256(<<CALLBACK_USERNAME, ":", "guess">>))}}

PhonePeWebhook(req, amt, gen) ==
    LET authHeader == IF req.signature.present THEN req.signature.val ELSE <<>>
        p == JsonParse(req.rawBody)
    IN IF ~validateCallback(CALLBACK_USERNAME, CALLBACK_PASSWORD, authHeader)
       THEN Reply(IF authHeader = <<>> THEN "missing" ELSE "mismatch", 403, NoPayload)
       ELSE Call(p, SaveStmt(p.order_id,
                             IF p.payment_time = "" THEN NULL ELSE p.payment_time,
                             NULL, NULL, amt,
                             IF p.payment_status = "COMPLETED" THEN "SUCCESS" ELSE "FAILED",
                             gen))

(***************************************************************************)
(* Requests in progress                                                    *)
(***************************************************************************)
NoArgs == [merchantOrderId |-> NULL, userName |-> NULL, email |-> NULL,
           phone |-> NULL, courseId |-> NULL, amountPaise |-> 0]

\* the JSON body of a verify_payment response: verified, db_status, order
NoReply == [verified |-> NULL, db_status |-> NULL, order |-> NoRow]

\* `authentic` and `headers` record what was true of the request received:
\* its signature was made with the gateway's secret over exactly what was
\* received, and its authentication headers were present.
Idle == [kind |-> "none", pc |-> "idle", orderId |-> NULL, type |-> NULL,
         verified |-> "none", authentic |-> FALSE, headers |-> FALSE,
         tampered |-> FALSE, paymentStatus |-> NULL,
         stmt |-> NoStmt, args |-> NoArgs,
         outcome |-> "none", dbOrder |-> NoRow, cfStatus |-> NULL,
         response |-> 0, reply |-> NoReply]

\* a handler slot is free before its first request and after each response;
\* a request takes the first free slot
Free(slot) ==
    /\ reqs[slot].pc \in {"idle", "done"}
    /\ slot = "h2" => reqs["h1"].pc \notin {"idle", "done"}
    /\ received < MaxRequests

\* A response is looked at in the state right after it is sent: the next
\* step of any handler retires the responses of the other handlers.
Accepting(slot) ==
    [k \in Slots |-> IF k # slot /\ reqs[k].pc = "done" THEN Idle ELSE reqs[k]]

\* The response is sent.  The handler's locals are gone; the slot keeps what
\* the caller saw and which transition the handler attempted.
Finish(r, code) ==
    [r EXCEPT !.pc = "done", !.response = code, !.args = NoArgs,
              !.dbOrder = NoRow,
              !.stmt = [NoStmt EXCEPT !.status = r.stmt.status,
                                      !.orderNumber = r.stmt.orderNumber]]

\* the log line of updateOrderStatus after a statement that changed a row
NoCommit == [count |-> 0, status |-> NULL]

Logged(c, s, outcome) ==
    IF outcome # "rows1" THEN c
    ELSE [c EXCEPT ![s.merchantOrderId] =
            [count |-> IF @.count < MaxCounted THEN @.count + 1 ELSE @.count,
             status |-> IF @.count = 0 THEN s.status ELSE @.status]]

Servers == {"server.js", "cashfree_sdk", "cashfree_axios", "cashfree_sdk2",
            "cashfree_full", "phonepe"}

\* the signature is the gateway's, over exactly the timestamp and body received
Authentic(req) ==
    /\ req.signature.present /\ req.timestamp.present /\ req.rawBody.present
    /\ req.signature.val = Hmac(SECRET_KEY, req.timestamp.val \o req.rawBody.val)

HasHeaders(req) == req.signature.present /\ req.timestamp.present

\* paymentStatus is data.payment.payment_status of a genuine notification
Delivery(req, o) ==
    [o |-> o, authentic |-> Authentic(req), headers |-> HasHeaders(req),
     paymentStatus |-> IF Authentic(req) THEN JsonParse(req.rawBody).payment_status
                       ELSE NULL]

\* Every way one run of a webhook handler can go, over the requests it can
\* receive, the clock and the order number generated.
ManualDeliveries ==
    {Delivery(req, ManualWebhook(req, now, gen)) :
        req \in WebhookRequests, now \in Clock, gen \in OrderNumbers}
SdkDeliveries ==
    {Delivery(req, SdkWebhook(req, now, gen)) :
        req \in WebhookRequests, now \in Clock, gen \in OrderNumbers}
Sdk2Deliveries ==
    {Delivery(req, Sdk2Webhook(req, now, gen)) :
        req \in WebhookRequests, now \in Clock, gen \in OrderNumbers}
FullDeliveries ==
    {Delivery(req, FullWebhook(req, now, gen)) :
        req \in WebhookRequests, now \in Clock, gen \in OrderNumbers}
AxiosDeliveries ==
    {Delivery(req, AxiosWebhook(req, now, gen)) :
        req \in WebhookRequests, now \in Clock, gen \in OrderNumbers}
PhonePeDeliveries ==
    {[o |-> PhonePeWebhook(req, amt, gen),
      authentic |-> (req.signature.present /\
                     req.signature.val =
                        Sha256(<<CALLBACK_USERNAME, ":", CALLBACK_PASSWORD>>)),
      headers |-> req.signature.present, paymentStatus |-> NULL] :
        req \in PhonePeRequests, amt \in CallbackAmounts, gen \in OrderNumbers}

Deliveries(srv) ==
    CASE srv = "server.js" -> ManualDeliveries
      [] srv = "cashfree_sdk" -> SdkDeliveries
      [] srv = "cashfree_sdk2" -> Sdk2Deliveries
      [] srv = "cashfree_full" -> FullDeliveries
      [] srv = "cashfree_axios" -> AxiosDeliveries
      [] srv = "phonepe" -> PhonePeDeliveries

Init ==
    /\ server = "server.js"
    /\ orders = {}
    /\ nextId = 1
    /\ reqs = [k \in Slots |-> Idle]
    /\ commits = [o \in MerchantOrderIds |-> NoCommit]
    /\ received = 0

InitRepo ==
    /\ server \in Servers
    /\ orders = {}
    /\ nextId = 1
    /\ reqs = [k \in Slots |-> Idle]
    /\ commits = [o \in MerchantOrderIds |-> NoCommit]
    /\ received = 0

\* POST .../webhook arrives: the handler runs up to its first await
Webhook(slot) ==
    /\ Free(slot)
    /\ \E d \in Deliveries(server) :
         LET r == [Idle EXCEPT !.kind = "webhook", !.type = d.o.type,
                               !.verified = d.o.verified,
                               !.authentic = d.authentic, !.headers = d.headers,
                               !.paymentStatus = d.paymentStatus,
                               !.orderId = d.o.orderId, !.stmt = d.o.stmt]
         IN reqs' = [Accepting(slot) EXCEPT ![slot] =
                        IF d.o.response # 0 THEN Finish(r, d.o.response)
                        ELSE [r EXCEPT !.pc = IF server = "phonepe" THEN "save"
                                              ELSE "update"]]
    /\ received' = received + 1
    /\ UNCHANGED <<server, orders, nextId, commits>>

\* The database executes the UPDATE the webhook handler awaits (db.js:166);
\* updateOrderStatus logs the result, or catches the error, and returns; the
\* handler sends res.status(200).
WebhookUpdate(slot) ==
    /\ reqs[slot].kind = "webhook"
    /\ reqs[slot].pc = "update"
    /\ LET u == updateOrderStatus(orders, reqs[slot].stmt) IN
         /\ orders' = u.orders
         /\ commits' = Logged(commits, reqs[slot].stmt, u.outcome)
         /\ reqs' = [Accepting(slot) EXCEPT ![slot] =
                        Finish([reqs[slot] EXCEPT !.outcome = u.outcome], 200)]
    /\ UNCHANGED <<server, nextId, received>>

\* updateOrderStatus rethrowing the error to a handler that rejects the webhook
WebhookUpdateRethrows(slot) ==
    /\ reqs[slot].kind = "webhook"
    /\ reqs[slot].pc = "update"
    /\ reqs' = [Accepting(slot) EXCEPT ![slot] =
                    Finish([reqs[slot] EXCEPT !.outcome = "unavailable"], 500)]
    /\ UNCHANGED <<server, orders, nextId, commits, received>>

\* db.execute rejects because the database cannot be reached: the catch of
\* updateOrderStatus swallows it and the handler sends res.status(200)
WebhookUpdateUnavailable(slot) ==
    /\ reqs[slot].kind = "webhook"
    /\ reqs[slot].pc = "update"
    /\ reqs' = [Accepting(slot) EXCEPT ![slot] =
                    Finish([reqs[slot] EXCEPT !.outcome = "unavailable"], 200)]
    /\ UNCHANGED <<server, orders, nextId, commits, received>>

\* The database executes the upsert the PhonePe handler awaits; saveOrder
\* logs or catches and returns; the handler sends res.json (200).
PhonePeSave(slot) ==
    /\ reqs[slot].kind = "webhook"
    /\ reqs[slot].pc = "save"
    /\ LET u == saveOrder(orders, nextId, reqs[slot].stmt) IN
         /\ orders' = u.orders
         /\ nextId' = u.nextId
         /\ reqs' = [Accepting(slot) EXCEPT ![slot] =
                        Finish([reqs[slot] EXCEPT !.outcome = u.outcome], 200)]
    /\ UNCHANGED <<server, commits, received>>

PhonePeSaveUnavailable(slot) ==
    /\ reqs[slot].kind = "webhook"
    /\ reqs[slot].pc = "save"
    /\ reqs' = [Accepting(slot) EXCEPT ![slot] =
                    Finish([reqs[slot] EXCEPT !.outcome = "unavailable"], 200)]
    /\ UNCHANGED <<server, orders, nextId, commits, received>>

\* POST /api/cashfree/create_order: validation passed, merchantOrderId is a
\* random UUID prefix, the handler awaits createPendingOrder
CreateOrder(slot) ==
    /\ Free(slot)
    /\ server # "phonepe"
    /\ \E moid \in MerchantOrderIds, c \in Customers, amt \in Amounts :
         reqs' = [Accepting(slot) EXCEPT ![slot] =
                    [Idle EXCEPT !.kind = "create_order", !.pc = "insert",
                                 !.orderId = moid,
                                 !.args = [merchantOrderId |-> moid,
                                           userName |-> c.name, email |-> c.email,
                                           phone |-> c.phone, courseId |-> c.courseId,
                                           amountPaise |-> amt]]]
    /\ received' = received + 1
    /\ UNCHANGED <<server, orders, nextId, commits>>

\* the database executes the INSERT create_order awaits (db.js:118); the
\* handler then sends the order to the gateway
CreateOrderInsert(slot) ==
    /\ reqs[slot].kind = "create_order"
    /\ reqs[slot].pc = "insert"
    /\ LET c == createPendingOrder(orders, nextId, reqs[slot].args) IN
         /\ orders' = c.orders
         /\ nextId' = c.nextId
         /\ reqs' = [Accepting(slot) EXCEPT ![slot].pc = "gateway", ![slot].outcome = c.outcome]
    /\ UNCHANGED <<server, commits, received>>

\* createPendingOrder swallowing the error: the handler goes on to the gateway
CreateOrderInsertIgnored(slot) ==
    /\ reqs[slot].kind = "create_order"
    /\ reqs[slot].pc = "insert"
    /\ reqs' = [Accepting(slot) EXCEPT ![slot].pc = "gateway",
                                       ![slot].outcome = "unavailable"]
    /\ UNCHANGED <<server, orders, nextId, commits, received>>

\* db.execute rejects: createPendingOrder rethrows, create_order answers 500
CreateOrderInsertUnavailable(slot) ==
    /\ reqs[slot].kind = "create_order"
    /\ reqs[slot].pc = "insert"
    /\ reqs' = [Accepting(slot) EXCEPT ![slot] =
                    Finish([reqs[slot] EXCEPT !.outcome = "unavailable"], 500)]
    /\ UNCHANGED <<server, orders, nextId, commits, received>>

\* a catch that deletes the order's row when the gateway call failed
CreateOrderRespondRollback(slot) ==
    /\ reqs[slot].kind = "create_order"
    /\ reqs[slot].pc = "gateway"
    /\ \E gatewayOk \in BOOLEAN :
         /\ reqs' = [Accepting(slot) EXCEPT ![slot] =
                       Finish(reqs[slot], IF gatewayOk THEN 200 ELSE 500)]
         /\ orders' = IF gatewayOk THEN orders
                      ELSE orders \ RowsOf(orders, reqs[slot].orderId)
    /\ UNCHANGED <<server, nextId, commits, received>>

\* the gateway answers the order creation: 200 with the payment session, or
\* the catch answers 500
CreateOrderRespond(slot) ==
    /\ reqs[slot].kind = "create_order"
    /\ reqs[slot].pc = "gateway"
    /\ \E gatewayOk \in BOOLEAN :
         reqs' = [Accepting(slot) EXCEPT ![slot] =
                    Finish(reqs[slot], IF gatewayOk THEN 200 ELSE 500)]
    /\ UNCHANGED <<server, orders, nextId, commits, received>>

(***************************************************************************)
(* POST /api/cashfree/verify_payment (src/server.js)                       *)
(***************************************************************************)
\* what GET /pg/orders/:id can answer: order_status, or the call rejects
GatewayStatuses == {"PAID", "ACTIVE", "EXPIRED"}

\* the request arrives: 400 without orderId, else the handler awaits
\* getOrderByMerchantId
VerifyPayment(slot) ==
    /\ Free(slot)
    /\ \E moid \in MerchantOrderIds \cup {NULL} :
         LET r == [Idle EXCEPT !.kind = "verify_payment", !.orderId = moid] IN
         reqs' = [Accepting(slot) EXCEPT ![slot] =
                    IF moid = NULL THEN Finish(r, 400)
                    ELSE [r EXCEPT !.pc = "lookup"]]
    /\ received' = received + 1
    /\ UNCHANGED <<server, orders, nextId, commits>>

\* the database executes the SELECT; the handler then queries the gateway
VerifyLookup(slot) ==
    /\ reqs[slot].kind = "verify_payment"
    /\ reqs[slot].pc = "lookup"
    /\ reqs' = [Accepting(slot) EXCEPT ![slot].pc = "gateway",
                            ![slot].dbOrder =
                                getOrderByMerchantId(orders, reqs[slot].orderId)]
    /\ UNCHANGED <<server, orders, nextId, commits, received>>

\* a rejected db.execute of a SELECT or of the fallback INSERT is rethrown
\* and the catch of verify_payment answers 500
VerifyStoreUnavailable(slot) ==
    /\ reqs[slot].kind = "verify_payment"
    /\ reqs[slot].pc \in {"lookup", "insert", "reload"}
    /\ reqs' = [Accepting(slot) EXCEPT ![slot] =
                    Finish([reqs[slot] EXCEPT !.outcome = "unavailable"], 500)]
    /\ UNCHANGED <<server, orders, nextId, commits, received>>

\* the gateway call rejects: 500
VerifyGatewayFails(slot) ==
    /\ reqs[slot].kind = "verify_payment"
    /\ reqs[slot].pc = "gateway"
    /\ reqs' = [Accepting(slot) EXCEPT ![slot] = Finish(reqs[slot], 500)]
    /\ UNCHANGED <<server, orders, nextId, commits, received>>

\* The gateway answers.  PAID: without a local row the handler awaits the
\* fallback createPendingOrder built from the gateway's data, with one it
\* awaits updateOrderStatus(SUCCESS).  Otherwise it answers verified: false.
VerifyGateway(slot) ==
    /\ reqs[slot].kind = "verify_payment"
    /\ reqs[slot].pc = "gateway"
    /\ \E cfStatus \in GatewayStatuses, c \in Customers, amt \in Amounts,
          now \in Clock, gen \in OrderNumbers :
         LET r == [reqs[slot] EXCEPT !.cfStatus = cfStatus] IN
         reqs' = [Accepting(slot) EXCEPT ![slot] =
            IF cfStatus = "PAID"
            THEN IF r.dbOrder = NoRow
                 THEN [r EXCEPT !.pc = "insert",
                                !.args = [merchantOrderId |-> r.orderId,
                                          userName |-> c.name, email |-> c.email,
                                          phone |-> c.phone, courseId |-> c.courseId,
                                          amountPaise |-> amt]]
                 ELSE [r EXCEPT !.pc = "update", !.dbOrder = NoRow,
                                !.stmt = UpdateStmt(r.orderId, now, "SUCCESS", gen)]
            ELSE Finish([r EXCEPT !.reply =
                            [verified |-> "false",
                             db_status |-> IF r.dbOrder = NoRow THEN "PENDING"
                                           ELSE r.dbOrder.status,
                             order |-> NoRow]], 200)]
    /\ UNCHANGED <<server, orders, nextId, commits, received>>

\* the database executes the fallback INSERT; the handler then awaits
\* updateOrderStatus(SUCCESS)
VerifyInsert(slot) ==
    /\ reqs[slot].kind = "verify_payment"
    /\ reqs[slot].pc = "insert"
    /\ \E now \in Clock, gen \in OrderNumbers :
         LET c == createPendingOrder(orders, nextId, reqs[slot].args) IN
         /\ orders' = c.orders
         /\ nextId' = c.nextId
         /\ reqs' = [Accepting(slot) EXCEPT ![slot] =
                [reqs[slot] EXCEPT !.pc = "update", !.args = NoArgs,
                    !.outcome = c.outcome,
                    !.stmt = UpdateStmt(reqs[slot].orderId, now, "SUCCESS", gen)]]
    /\ UNCHANGED <<server, commits, received>>

\* the database executes the UPDATE; updateOrderStatus returns and the
\* handler awaits the second getOrderByMerchantId
VerifyUpdate(slot) ==
    /\ reqs[slot].kind = "verify_payment"
    /\ reqs[slot].pc = "update"
    /\ LET u == updateOrderStatus(orders, reqs[slot].stmt) IN
         /\ orders' = u.orders
         /\ commits' = Logged(commits, reqs[slot].stmt, u.outcome)
         /\ reqs' = [Accepting(slot) EXCEPT ![slot].pc = "reload", ![slot].outcome = u.outcome]
    /\ UNCHANGED <<server, nextId, received>>

\* db.execute of the UPDATE rejects: updateOrderStatus swallows the error
VerifyUpdateUnavailable(slot) ==
    /\ reqs[slot].kind = "verify_payment"
    /\ reqs[slot].pc = "update"
    /\ reqs' = [Accepting(slot) EXCEPT ![slot].pc = "reload", ![slot].outcome = "unavailable"]
    /\ UNCHANGED <<server, orders, nextId, commits, received>>

\* the database executes the second SELECT; the handler answers
\* { success: true, verified: true, order: dbOrder }
VerifyReload(slot) ==
    /\ reqs[slot].kind = "verify_payment"
    /\ reqs[slot].pc = "reload"
    /\ reqs' = [Accepting(slot) EXCEPT ![slot] =
            Finish([reqs[slot] EXCEPT !.reply =
                      [verified |-> "true", db_status |-> NULL,
                       order |-> getOrderByMerchantId(orders, reqs[slot].orderId)]],
                   200)]
    /\ UNCHANGED <<server, orders, nextId, commits, received>>

Next ==
    \E slot \in Slots :
        \/ Webhook(slot)
        \/ WebhookUpdate(slot)
        \/ WebhookUpdateUnavailable(slot)
        \/ CreateOrder(slot)
        \/ CreateOrderInsert(slot)
        \/ CreateOrderInsertUnavailable(slot)
        \/ CreateOrderRespond(slot)
        \/ VerifyPayment(slot)
        \/ VerifyLookup(slot)
        \/ VerifyStoreUnavailable(slot)
        \/ VerifyGatewayFails(slot)
        \/ VerifyGateway(slot)
        \/ VerifyInsert(slot)
        \/ VerifyUpdate(slot)
        \/ VerifyUpdateUnavailable(slot)
        \/ VerifyReload(slot)

Spec == Init /\ [][Next]_vars

\* the webhook and order-creation endpoints of every server of the repository
NextWebhooks ==
    \E slot \in Slots :
        \/ Webhook(slot)
        \/ WebhookUpdate(slot)
        \/ WebhookUpdateUnavailable(slot)
        \/ PhonePeSave(slot)
        \/ PhonePeSaveUnavailable(slot)
        \/ CreateOrder(slot)
        \/ CreateOrderInsert(slot)
        \/ CreateOrderInsertUnavailable(slot)
        \/ CreateOrderRespond(slot)

SpecWebhooks == InitRepo /\ [][NextWebhooks]_vars

(***************************************************************************)
(* src/server.js in service: altered and abandoned deliveries, and clients *)
(* polling GET /api/order/:merchantOrderId                                 *)
(***************************************************************************)
\* the values a field of a raw body can be changed to
FieldValues(i) ==
    CASE i = 1 -> WebhookTypes
      [] i = 2 -> MerchantOrderIds
      [] i = 3 -> {"SUCCESS", "FAILED"}
      [] i = 4 -> Times

\* the raw bodies that differ from b in exactly one position
Tampered(b) ==
    {[b EXCEPT ![i] = t] : i \in 1..Len(b), t \in UNION {FieldValues(k) : k \in 1..4}}
    \ {b}

\* genuine deliveries whose raw body was altered on the way: signature and
\* timestamp are the gateway's, over the body it sent
TamperedRequests ==
    UNION {{[signature |-> Present(Hmac(SECRET_KEY, GatewayTimestamp \o b)),
             timestamp |-> Present(GatewayTimestamp), rawBody |-> Present(c)] :
              c \in {x \in Tampered(b) : \A i \in 1..Len(b) : x[i] \in FieldValues(i)}} :
           b \in WebhookBodies}

TamperedDeliveries ==
    {Delivery(req, ManualWebhook(req, now, gen)) :
        req \in TamperedRequests, now \in Clock, gen \in OrderNumbers}

\* POST /api/cashfree/webhook receives an altered delivery
WebhookTampered(slot) ==
    /\ Free(slot)
    /\ \E d \in TamperedDeliveries :
         LET r == [Idle EXCEPT !.kind = "webhook", !.type = d.o.type,
                               !.verified = d.o.verified,
                               !.authentic = d.authentic, !.headers = d.headers,
                               !.paymentStatus = d.paymentStatus,
                               !.tampered = TRUE,
                               !.orderId = d.o.orderId, !.stmt = d.o.stmt]
         IN reqs' = [Accepting(slot) EXCEPT ![slot] =
                        IF d.o.response # 0 THEN Finish(r, d.o.response)
                        ELSE [r EXCEPT !.pc = "update"]]
    /\ received' = received + 1
    /\ UNCHANGED <<server, orders, nextId, commits>>

\* The handler is abandoned while it awaits updateOrderStatus: the process
\* is stopped, or the request times out, before the UPDATE reaches the
\* database.  No response is sent; the slot keeps what the handler was doing.
WebhookCancelled(slot) ==
    /\ reqs[slot].kind = "webhook"
    /\ reqs[slot].pc = "update"
    /\ reqs' = [Accepting(slot) EXCEPT ![slot].pc = "cancelled"]
    /\ UNCHANGED <<server, orders, nextId, commits, received>>

\* (order.amount_paise / 100).toFixed(2): rupees and two digits of paise
ToFixed2(paise) == <<paise \div 100, (paise % 100) \div 10, paise % 10>>

\* the order object GET /api/order/:merchantOrderId answers with
OrderView(order) ==
    [order_number |-> order.order_number,
     merchant_order_id |-> order.merchant_order_id,
     amount |-> ToFixed2(order.amount_paise),
     name |-> IF order.user_name = NULL THEN "Not provided" ELSE order.user_name,
     email |-> IF order.email = NULL THEN "Not provided" ELSE order.email,
     phone |-> IF order.phone_number = NULL THEN "Not provided" ELSE order.phone_number,
     course_id |-> order.course_id,
     date |-> IF order.transaction_date = NULL THEN "Pending"
              ELSE <<"en-IN", order.transaction_date>>,
     status |-> order.status]

\* a handler answering 200 with whatever the SELECT returned
GetOrderReplyUnchecked(order) ==
    [response |-> 200,
     reply |-> [verified |-> NULL, db_status |-> NULL, order |-> OrderView(order)]]

\* if (!order) 404, else res.json({ success: true, order: {...} })
GetOrderReply(order) ==
    IF order = NoRow
    THEN [response |-> 404, reply |-> NoReply]
    ELSE [response |-> 200,
          reply |-> [verified |-> NULL, db_status |-> NULL, order |-> OrderView(order)]]

\* GET /api/order/:merchantOrderId arrives: the handler awaits
\* getOrderByMerchantId
GetOrder(slot) ==
    /\ Free(slot)
    /\ \E moid \in MerchantOrderIds :
         reqs' = [Accepting(slot) EXCEPT ![slot] =
                    [Idle EXCEPT !.kind = "get_order", !.pc = "select",
                                 !.orderId = moid]]
    /\ received' = received + 1
    /\ UNCHANGED <<server, orders, nextId, commits>>

\* the database executes the SELECT and the handler answers
GetOrderSelect(slot) ==
    /\ reqs[slot].kind = "get_order"
    /\ reqs[slot].pc = "select"
    /\ LET g == GetOrderReply(getOrderByMerchantId(orders, reqs[slot].orderId)) IN
         reqs' = [Accepting(slot) EXCEPT ![slot] =
                    Finish([reqs[slot] EXCEPT !.reply = g.reply,
                                              !.outcome = "rows0"], g.response)]
    /\ UNCHANGED <<server, orders, nextId, commits, received>>

\* db.execute of the SELECT rejects: getOrderByMerchantId rethrows, 500
GetOrderUnavailable(slot) ==
    /\ reqs[slot].kind = "get_order"
    /\ reqs[slot].pc = "select"
    /\ reqs' = [Accepting(slot) EXCEPT ![slot] =
                    Finish([reqs[slot] EXCEPT !.outcome = "unavailable"], 500)]
    /\ UNCHANGED <<server, orders, nextId, commits, received>>

\* The table outlives the server process (CREATE TABLE IF NOT EXISTS): the
\* server starts on an empty table, or on the rows of earlier runs.
StoredPending ==
    PendingRow(1, [merchantOrderId |-> "ORD-a", userName |-> "asha",
                   email |-> "a@x.in", phone |-> "900", courseId |-> "c1",
                   amountPaise |-> 10000])
StoredSuccess ==
    SetRow(PendingRow(2, [merchantOrderId |-> "ORD-b", userName |-> "asha",
                          email |-> "a@x.in", phone |-> "900", courseId |-> "c1",
                          amountPaise |-> 10000]),
           UpdateStmt("ORD-b", "t1", "SUCCESS", "ORD-20240101-111111"))

InitStored ==
    /\ server = "server.js"
    /\ \/ /\ orders = {}
          /\ nextId = 1
          /\ commits = [o \in MerchantOrderIds |-> NoCommit]
       \/ /\ orders = {StoredPending, StoredSuccess}
          /\ nextId = 3
          /\ commits = [o \in MerchantOrderIds |->
                          IF o = "ORD-b" THEN [count |-> 1, status |-> "SUCCESS"]
                          ELSE NoCommit]
    /\ reqs = [k \in Slots |-> Idle]
    /\ received = 0

NextService ==
    \E slot \in Slots :
        \/ Webhook(slot)
        \/ WebhookTampered(slot)
        \/ WebhookUpdate(slot)
        \/ WebhookUpdateUnavailable(slot)
        \/ WebhookCancelled(slot)
        \/ CreateOrder(slot)
        \/ CreateOrderInsert(slot)
        \/ CreateOrderInsertUnavailable(slot)
        \/ CreateOrderRespond(slot)
        \/ GetOrder(slot)
        \/ GetOrderSelect(slot)
        \/ GetOrderUnavailable(slot)

SpecService == InitStored /\ [][NextService]_vars

(***************************************************************************)
(* Properties                                                              *)
(***************************************************************************)
\* the row a client sees for a merchant_order_id (NoRow when there is none)
Row(o) == getOrderByMerchantId(orders, o)

\* requests that called updateOrderStatus and have been answered
Answered(s) == reqs[s].pc = "done" /\ reqs[s].kind \in {"webhook", "verify_payment"}

\* C1: in every step, every order keeps its row, and its status either stays
\* as it is or moves from PENDING to SUCCESS or FAILED; no step moves
\* SUCCESS to FAILED, FAILED to SUCCESS or a terminal status to PENDING.
StatusOnlyLeavesPending ==
    [][ \A r \in orders :
          /\ \E q \in orders' : q.merchant_order_id = r.merchant_order_id
          /\ \A q \in orders' :
                q.merchant_order_id = r.merchant_order_id =>
                    \/ q.status = r.status
                    \/ r.status = "PENDING" /\ q.status \in Terminal ]_vars

\* a terminal order on which a later call tried to write the other terminal
\* status
C1Witness ==
    \E s \in Slots :
        /\ Answered(s)
        /\ reqs[s].outcome = "rows0"
        /\ Row(reqs[s].orderId).status \in Terminal
        /\ reqs[s].stmt.status \in Terminal \ {Row(reqs[s].orderId).status}

\* C2: over any number of updateOrderStatus calls on one merchant_order_id,
\* at most one call changes the row (reports one row affected).
AtMostOneCommit == \A o \in MerchantOrderIds : commits[o].count <= 1

\* one call had committed and a later call with the same terminal status,
\* answered now, changed no row
C2Witness ==
    \E s \in Slots :
        /\ Answered(s)
        /\ reqs[s].outcome = "rows0"
        /\ commits[reqs[s].orderId].count = 1
        /\ reqs[s].stmt.status = commits[reqs[s].orderId].status
        /\ reqs[s].stmt.status = Row(reqs[s].orderId).status

\* C3: of the updateOrderStatus calls with a terminal status that the
\* database executes on one PENDING order, exactly one commits: the call
\* that finds the order PENDING changes it to its own status, no later call
\* changes it again, and the stored status is that of the first call that
\* committed.
FirstCommittedWins ==
    /\ [](\A o \in MerchantOrderIds :
            /\ commits[o].count <= 1
            /\ commits[o].count = 1 => Row(o).status = commits[o].status)
    /\ [][ \A s \in Slots :
             ( /\ reqs[s].pc = "update"
               /\ reqs'[s].pc # "update"
               /\ reqs'[s].outcome # "unavailable"
               /\ Row(reqs[s].orderId).status = "PENDING" )
             => /\ reqs'[s].outcome = "rows1"
                /\ getOrderByMerchantId(orders', reqs[s].orderId).status
                      = reqs[s].stmt.status ]_vars

\* C4: in every reachable state an order has an order_number exactly when
\* its status is SUCCESS.
OrderNumberIffSuccess ==
    \A r \in orders : (r.order_number # NULL) <=> (r.status = "SUCCESS")

\* the table holds a SUCCESS order and a FAILED order, both written by
\* updateOrderStatus
C4Witness ==
    \E r, q \in orders :
        /\ r.status = "SUCCESS" /\ q.status = "FAILED"
        /\ commits[r.merchant_order_id].count = 1
        /\ commits[q.merchant_order_id].count = 1

\* C5: a webhook whose UPDATE is executed when the order is already SUCCESS
\* or FAILED changes nothing in the table, whatever status and candidate
\* order number it carries, and is answered 200.
ReplayIsNoOp ==
    [][ \A s \in Slots :
          ( /\ reqs[s].kind = "webhook"
            /\ reqs[s].pc = "update"
            /\ reqs'[s].pc = "done"
            /\ Row(reqs[s].orderId).status \in Terminal )
          => /\ orders' = orders
             /\ reqs'[s].outcome \in {"rows0", "unavailable"}
             /\ reqs'[s].response = 200 ]_vars

\* a SUCCESS webhook was replayed on a SUCCESS order with another candidate
\* order number than the one the order holds
C5Witness ==
    \E s \in Slots :
        /\ reqs[s].kind = "webhook" /\ reqs[s].pc = "done"
        /\ reqs[s].outcome = "rows0"
        /\ reqs[s].stmt.status = "SUCCESS"
        /\ Row(reqs[s].orderId).status = "SUCCESS"
        /\ reqs[s].stmt.orderNumber # NULL
        /\ Row(reqs[s].orderId).order_number # reqs[s].stmt.orderNumber

AcknowledgedOnceVerified ==
    \A s \in Slots :
        (reqs[s].kind = "webhook" /\ reqs[s].pc = "done")
        => /\ reqs[s].verified = "ok" => reqs[s].response = 200
           /\ reqs[s].response # 200 => reqs[s].verified \in {"missing", "mismatch"}

\* a verified PAYMENT_SUCCESS webhook with payment_status SUCCESS
SuccessWebhook(r) ==
    /\ r.kind = "webhook"
    /\ r.verified = "ok"
    /\ r.type = "PAYMENT_SUCCESS_WEBHOOK"
    /\ r.stmt.status = "SUCCESS"

\* C9: when the second of two signed PAYMENT_SUCCESS webhooks for one
\* order, in flight together, has its UPDATE executed, and the order was
\* PENDING when the first UPDATE was executed, the order is SUCCESS, one
\* transition has committed and assigned its order_number, and both
\* requests are answered 200.
ConcurrentSuccessWebhooks ==
    [][ \A s, t \in Slots :
          ( /\ s # t
            /\ SuccessWebhook(reqs[t]) /\ reqs[t].pc = "done"
            /\ SuccessWebhook(reqs[s]) /\ reqs[s].pc = "update"
            /\ reqs[s].orderId = reqs[t].orderId
            /\ reqs[t].outcome \in {"rows1", "error"}
            /\ reqs'[s].pc = "done"
            /\ reqs'[s].outcome \in {"rows1", "rows0", "error"} )
          => /\ getOrderByMerchantId(orders', reqs[s].orderId).status = "SUCCESS"
             /\ getOrderByMerchantId(orders', reqs[s].orderId).order_number # NULL
             /\ commits'[reqs[s].orderId].count = 1
             /\ reqs[t].response = 200
             /\ reqs'[s].response = 200 ]_vars

\* C10: when the INSERT of createPendingOrder is executed for a
\* merchant_order_id that already has a row, the table is left exactly as
\* it was (no row added, the existing row unchanged), no row is reported
\* inserted, and the caller goes on without an error.
CreateIsIdempotent ==
    [][ \A s \in Slots :
          ( /\ reqs[s].pc = "insert"
            /\ reqs'[s].pc # "insert"
            /\ reqs'[s].outcome # "unavailable"
            /\ RowsOf(orders, reqs[s].orderId) # {} )
          => /\ orders' = orders
             /\ nextId' = nextId
             /\ reqs'[s].outcome = "rows0"
             /\ reqs'[s].pc \in {"gateway", "update"} ]_vars

\* the fallback INSERT of verify_payment was executed for an order that
\* another request had meanwhile created and made SUCCESS; the order still
\* is SUCCESS, with its order_number and transaction_date
C10Witness ==
    \E s \in Slots :
        /\ reqs[s].kind = "verify_payment"
        /\ reqs[s].pc = "update"
        /\ reqs[s].outcome = "rows0"
        /\ Row(reqs[s].orderId).status = "SUCCESS"
        /\ Row(reqs[s].orderId).order_number # NULL
        /\ Row(reqs[s].orderId).transaction_date # NULL

\* C11: in every reachable state the table holds at most one row per
\* merchant_order_id, whatever createPendingOrder calls of create_order and
\* of the verify_payment fallback have been executed for that id.
OneRowPerMerchantOrderId ==
    \A r, q \in orders : r.merchant_order_id = q.merchant_order_id => r = q

\* the INSERTs of a create_order and of a verify_payment fallback, in flight
\* together for one id, have both been executed: one inserted the row, the
\* other found it
C11Witness ==
    \E s, t \in Slots :
        /\ reqs[s].kind = "create_order" /\ reqs[s].pc = "gateway"
        /\ reqs[t].kind = "verify_payment" /\ reqs[t].pc = "update"
        /\ reqs[s].orderId = reqs[t].orderId
        /\ {reqs[s].outcome, reqs[t].outcome} = {"rows1", "rows0"}
        /\ Cardinality(RowsOf(orders, reqs[s].orderId)) = 1

\* the UPDATE awaited by the verify_payment request in slot s is executed by
\* the database in this step, while the order is PENDING
ReconcileWrites(s) ==
    /\ reqs[s].kind = "verify_payment"
    /\ reqs[s].pc = "update"
    /\ reqs'[s].pc = "reload"
    /\ reqs'[s].outcome # "unavailable"
    /\ Row(reqs[s].orderId).status = "PENDING"

\* the order of slot s is SUCCESS with an order_number after the step
NowSuccess(s) ==
    /\ getOrderByMerchantId(orders', reqs[s].orderId).status = "SUCCESS"
    /\ getOrderByMerchantId(orders', reqs[s].orderId).order_number # NULL

\* C12: a verify_payment call that found a local row, was told PAID by the
\* gateway and has its UPDATE executed while the order is PENDING leaves the
\* order SUCCESS with an order_number, and the order it then reloads and
\* returns is that SUCCESS order.
ReconcileConverges ==
    /\ [][ \A s \in Slots :
             (ReconcileWrites(s) /\ reqs[s].outcome = "none") => NowSuccess(s) ]_vars
    /\ [](\A s \in Slots :
            ( /\ reqs[s].kind = "verify_payment" /\ reqs[s].pc = "done"
              /\ reqs[s].reply.verified = "true"
              /\ reqs[s].outcome = "rows1" )
            => /\ reqs[s].reply.order.status = "SUCCESS"
               /\ reqs[s].reply.order.order_number # NULL)

\* C13: the UPDATE of verify_payment is only awaited once the order has a
\* row; the fallback INSERT adds the PENDING row built from the gateway's
\* customer and amount data; and the UPDATE that follows the fallback, if
\* executed while the order is PENDING, leaves it SUCCESS with an
\* order_number.
FallbackCreatesThenTransitions ==
    /\ [](\A s \in Slots :
            (reqs[s].kind = "verify_payment" /\ reqs[s].pc = "update")
            => RowsOf(orders, reqs[s].orderId) # {})
    /\ [][ \A s \in Slots :
             /\ ( /\ reqs[s].kind = "verify_payment"
                  /\ reqs[s].pc = "insert"
                  /\ reqs'[s].pc = "update"
                  /\ reqs'[s].outcome = "rows1" )
                => /\ orders' = orders \cup {PendingRow(nextId, reqs[s].args)}
                   /\ reqs[s].args.merchantOrderId = reqs[s].orderId
             /\ (ReconcileWrites(s) /\ reqs[s].outcome = "rows1")
                => NowSuccess(s) ]_vars

\* C14: verify_payment never waits for the gateway's answer about an order
\* whose local row, as it loaded it, is SUCCESS or FAILED.
TerminalSkipsGateway ==
    \A s \in Slots :
        (reqs[s].kind = "verify_payment" /\ reqs[s].pc = "gateway")
        => reqs[s].dbOrder.status \notin Terminal

\* C15: a verify_payment request whose UPDATE was rejected or failed in the
\* database is not answered with a success response.
ReconcileFailureSurfaced ==
    \A s \in Slots :
        ( /\ reqs[s].kind = "verify_payment" /\ reqs[s].pc = "done"
          /\ reqs[s].stmt.status # NULL
          /\ reqs[s].outcome \in {"unavailable", "error"} )
        => reqs[s].response # 200

\* C16: when verify_payment answers 200, the status in its response is the
\* status stored for that merchant_order_id at that moment; with no row
\* stored, no status (and so not PENDING) is reported.
ReconcileReportsStored ==
    \A s \in Slots :
        ( /\ reqs[s].kind = "verify_payment" /\ reqs[s].pc = "done"
          /\ reqs[s].response = 200 )
        => /\ reqs[s].reply.verified = "false"
              => reqs[s].reply.db_status = Row(reqs[s].orderId).status
           /\ reqs[s].reply.verified = "true"
              => reqs[s].reply.order.status = Row(reqs[s].orderId).status

\* C17: when the gateway answers a verify_payment request whose local order
\* is PENDING, the handler goes on as the webhook handler does for the
\* matching notification: PAID leads to the UPDATE to SUCCESS, a status that
\* reports the payment as not made (EXPIRED) to the UPDATE to FAILED, and a
\* status still open (ACTIVE) to no UPDATE.
ReconcileMapsLikeWebhook ==
    [][ \A s \in Slots :
          ( /\ reqs[s].kind = "verify_payment"
            /\ reqs[s].pc = "gateway"
            /\ reqs'[s].pc # "gateway"
            /\ reqs'[s].cfStatus # NULL
            /\ reqs[s].dbOrder.status = "PENDING" )
          => /\ reqs'[s].cfStatus = "PAID"
                => reqs'[s].pc = "update" /\ reqs'[s].stmt.status = "SUCCESS"
             /\ reqs'[s].cfStatus = "EXPIRED"
                => reqs'[s].pc = "update" /\ reqs'[s].stmt.status = "FAILED"
             /\ reqs'[s].cfStatus = "ACTIVE"
                => reqs'[s].pc = "done" /\ reqs'[s].stmt = NoStmt ]_vars

\* C18: when the database executes the UPDATE of an authenticated
\* notification for an order that is PENDING, a success notification leaves
\* the order SUCCESS with an order_number, and a failure notification leaves
\* it FAILED with order_number null.
NotificationApplied ==
    [][ \A s \in Slots :
          ( /\ reqs[s].kind = "webhook" /\ reqs[s].authentic
            /\ reqs[s].pc = "update" /\ reqs'[s].pc = "done"
            /\ reqs'[s].outcome # "unavailable"
            /\ Row(reqs[s].orderId).status = "PENDING" )
          => LET after == getOrderByMerchantId(orders', reqs[s].orderId) IN
             /\ reqs[s].stmt.status = "SUCCESS"
                => after.status = "SUCCESS" /\ after.order_number # NULL
             /\ reqs[s].stmt.status = "FAILED"
                => after.status = "FAILED" /\ after.order_number = NULL ]_vars

\* an authenticated notification of the given types, as the handler took it
Notified(r, types) ==
    r.kind = "webhook" /\ r.authentic /\ r.type \in types

\* C19: on every Cashfree server an authenticated payment-dropped
\* notification is answered 200 at once, with no statement sent to the
\* database and the orders table as it was.
DroppedIsNoOp ==
    [][ \A s \in Slots :
          ( /\ Notified(reqs'[s], {"PAYMENT_USER_DROPPED_WEBHOOK"})
            /\ reqs'[s] # reqs[s] )
          => /\ orders' = orders
             /\ reqs'[s].pc = "done"
             /\ reqs'[s].response = 200
             /\ reqs'[s].stmt = NoStmt ]_vars

C19Witness ==
    /\ server = "cashfree_full"
    /\ Row("ORD-a").status = "PENDING"
    /\ \E s \in Slots :
         /\ Notified(reqs[s], {"PAYMENT_USER_DROPPED_WEBHOOK"})
         /\ reqs[s].pc = "done"
         /\ reqs[s].response = 200

\* the notification types src/server.js has a branch for
HandledTypes == {"PAYMENT_SUCCESS_WEBHOOK", "PAYMENT_FAILED_WEBHOOK"}

\* C20: an authenticated notification of a type the handler has no branch
\* for is answered 200 at once, with no statement sent to the database and
\* the orders table as it was.
UnknownTypeIgnored ==
    [][ \A s \in Slots :
          ( /\ Notified(reqs'[s], WebhookTypes \ HandledTypes)
            /\ reqs'[s] # reqs[s] )
          => /\ orders' = orders
             /\ reqs'[s].pc = "done"
             /\ reqs'[s].response = 200
             /\ reqs'[s].stmt = NoStmt ]_vars

C20Witness ==
    /\ server = "server.js"
    /\ Row("ORD-a").status = "PENDING"
    /\ \E s \in Slots :
         /\ Notified(reqs[s], {"REFUND_STATUS_WEBHOOK"})
         /\ reqs[s].pc = "done"
         /\ reqs[s].response = 200

\* the UPDATE a handler awaited did not go through: db.execute rejected
\* (database unreachable) or a constraint refused the statement
WriteFailed(r) == r.outcome \in {"unavailable", "error"}

\* C21: when the UPDATE awaited by the handler of a verified webhook fails,
\* the step leaves the orders table as it was (a PENDING order stays PENDING
\* with order_number null) and the webhook is answered 200.
PersistenceFailureAcknowledged ==
    [][ \A s \in Slots :
          ( /\ reqs[s].kind = "webhook" /\ reqs[s].pc = "update"
            /\ reqs[s].verified = "ok"
            /\ reqs'[s].pc = "done" /\ WriteFailed(reqs'[s]) )
          => /\ orders' = orders
             /\ reqs'[s].response = 200
             /\ Row(reqs[s].orderId).status = "PENDING"
                => LET after == getOrderByMerchantId(orders', reqs[s].orderId) IN
                   after.status = "PENDING" /\ after.order_number = NULL ]_vars

C21Witness ==
    \E s \in Slots :
        /\ reqs[s].kind = "webhook" /\ reqs[s].pc = "done"
        /\ reqs[s].verified = "ok" /\ reqs[s].authentic
        /\ reqs[s].outcome = "unavailable"
        /\ reqs[s].stmt.status = "SUCCESS"
        /\ reqs[s].response = 200
        /\ Row(reqs[s].orderId).status = "PENDING"
        /\ Row(reqs[s].orderId).order_number = NULL

\* C23: in every reachable state no two rows hold the same non-null
\* order_number, whatever generateOrderNumber returned.
OrderNumbersUnique ==
    \A r, q \in orders :
        (r.order_number # NULL /\ r.order_number = q.order_number) => r = q

\* a handler generated the order_number another order already holds, and
\* the database refused its UPDATE
C23Witness ==
    \E s \in Slots, o \in MerchantOrderIds :
        /\ reqs[s].kind \in {"webhook", "verify_payment"}
        /\ reqs[s].outcome = "error"
        /\ o # reqs[s].orderId
        /\ Row(o).status = "SUCCESS"
        /\ reqs[s].stmt.orderNumber = Row(o).order_number
        /\ Row(reqs[s].orderId).order_number = NULL

\* a delivery of the notification an abandoned handler was processing
Redelivery(c, r) ==
    /\ c.kind = "webhook" /\ c.pc = "cancelled"
    /\ r.kind = "webhook" /\ r.authentic /\ ~r.tampered
    /\ r.type = c.type /\ r.orderId = c.orderId
    /\ r.stmt.status = c.stmt.status
    /\ r.stmt.transactionTime = c.stmt.transactionTime

\* C22: the step that abandons a webhook handler before its UPDATE leaves
\* the orders table as it was; and when the UPDATE of a later delivery of
\* the same notification is executed on the still PENDING order, the order
\* gets the state the abandoned handler was writing: its status and
\* transaction time, with an order_number exactly when the status is SUCCESS.
RedeliveryCompletes ==
    [][ /\ \A s \in Slots :
             (reqs[s].pc = "update" /\ reqs'[s].pc = "cancelled")
             => orders' = orders
        /\ \A s, t \in Slots :
             ( /\ Redelivery(reqs[s], reqs[t])
               /\ reqs[t].pc = "update" /\ reqs'[t].pc = "done"
               /\ reqs'[t].outcome # "unavailable"
               /\ Row(reqs[t].orderId).status = "PENDING" )
             => LET after == getOrderByMerchantId(orders', reqs[t].orderId) IN
                /\ after.status = reqs[s].stmt.status
                /\ after.transaction_date = reqs[s].stmt.transactionTime
                /\ (after.order_number # NULL) <=> (reqs[s].stmt.status = "SUCCESS")
      ]_vars

\* a webhook request has just been received by handler s
Received(s) ==
    /\ reqs[s].pc \in {"idle", "done"}
    /\ reqs'[s].kind = "webhook"
    /\ reqs'[s] # reqs[s]

Polled(s) ==
    /\ reqs[s].kind = "get_order" /\ reqs[s].pc = "done"
    /\ reqs[s].outcome # "unavailable"

\* C25: whenever GET /api/order/:merchantOrderId answers from its SELECT,
\* the answer is 404 exactly when the table holds no row for the id, and
\* otherwise 200 with the status and order_number stored in that row; and
\* no step of the handler changes the table.
GetOrderReportsStored ==
    /\ [](\A s \in Slots :
            Polled(s)
            => /\ reqs[s].response \in {200, 404}
               /\ (reqs[s].response = 404) <=> (RowsOf(orders, reqs[s].orderId) = {})
               /\ reqs[s].response = 200
                  => /\ reqs[s].reply.order.status = Row(reqs[s].orderId).status
                     /\ reqs[s].reply.order.order_number
                            = Row(reqs[s].orderId).order_number
                     /\ reqs[s].reply.order.merchant_order_id = reqs[s].orderId)
    /\ [][ \A s \in Slots :
             (reqs[s].kind = "get_order" \/ reqs'[s].kind = "get_order")
             /\ reqs'[s] # reqs[s] /\ reqs'[s] # Idle
             => orders' = orders ]_vars

\* a SUCCESS order is reported with its order_number while the other id is
\* unknown to the table
C25Witness ==
    \E s \in Slots :
        /\ Polled(s) /\ reqs[s].response = 200
        /\ reqs[s].reply.order.status = "SUCCESS"
        /\ reqs[s].reply.order.order_number \in OrderNumbers
        /\ \E o \in MerchantOrderIds : RowsOf(orders, o) = {}

\* C26: a poll never shows a transition half applied.  Every 200 answer of
\* GET /api/order shows PENDING with no order_number and date 'Pending', or
\* FAILED with a date and no order_number, or SUCCESS with a date and an
\* order_number, and shows a terminal status only after an UPDATE on that
\* order committed; and in every step a row's order_number and
\* transaction_date change only together with its status.
PollSeesWholeTransitions ==
    /\ [](\A s \in Slots :
            (Polled(s) /\ reqs[s].response = 200)
            => LET v == reqs[s].reply.order IN
               /\ v.status = "PENDING"
                  => v.order_number = NULL /\ v.date = "Pending"
               /\ v.status = "FAILED"
                  => v.order_number = NULL /\ v.date # "Pending"
               /\ v.status = "SUCCESS"
                  => v.order_number # NULL /\ v.date # "Pending"
               /\ v.status \in Terminal => commits[reqs[s].orderId].count >= 1)
    /\ [][ \A o \in MerchantOrderIds :
             LET before == Row(o)
                 after == getOrderByMerchantId(orders', o)
             IN (before # NoRow /\ after # before)
                => /\ before.status = "PENDING" /\ after.status \in Terminal
                   /\ before.transaction_date = NULL
                   /\ after.transaction_date # NULL
                   /\ (after.order_number # NULL) <=> (after.status = "SUCCESS")
          ]_vars

\* a client is shown PENDING while the UPDATE of a verified success
\* notification for the order is still in flight
C26Witness ==
    \E s, t \in Slots :
        /\ Polled(s) /\ reqs[s].response = 200
        /\ reqs[s].reply.order.status = "PENDING"
        /\ reqs[t].kind = "webhook" /\ reqs[t].pc = "update"
        /\ reqs[t].authentic
        /\ reqs[t].orderId = reqs[s].orderId
        /\ reqs[t].stmt.status = "SUCCESS"

\* C27: on every server of the repository, no step changes the status or
\* the order_number of a row whose status is not PENDING.
WritersAreConditional ==
    [][ \A r \in orders :
          r.status # "PENDING"
          => \E q \in orders' :
                /\ q.id = r.id
                /\ q.status = r.status
                /\ q.order_number = r.order_number ]_vars

\* C28: on every server of the repository, a row that a step adds to the
\* table has status PENDING and order_number null.
RowsStartPending ==
    [][ \A q \in orders' :
          (\A r \in orders : r.id # q.id)
          => q.status = "PENDING" /\ q.order_number = NULL ]_vars

\* handler s's UPDATE has just been executed and changed a row
Committed(s) ==
    /\ reqs[s].kind \in {"webhook", "verify_payment"}
    /\ reqs[s].pc = "update"
    /\ reqs'[s].pc # "update"
    /\ reqs'[s].outcome = "rows1"

\* C29: a PENDING order has transaction_date null in every reachable state;
\* the UPDATE that commits an order's transition stores the transactionTime
\* of that call, and no later step changes the transaction_date of a
\* terminal order.
TransactionDateFromCommit ==
    /\ [](\A r \in orders : r.status = "PENDING" => r.transaction_date = NULL)
    /\ [][ /\ \A s \in Slots :
                Committed(s)
                => getOrderByMerchantId(orders', reqs[s].orderId).transaction_date
                      = reqs[s].stmt.transactionTime
           /\ \A r \in orders :
                r.status \in Terminal
                => \E q \in orders' :
                      q.id = r.id /\ q.transaction_date = r.transaction_date
         ]_vars

\* a later call with another transactionTime found the order terminal and
\* left the stored one
C29Witness ==
    \E s \in Slots :
        /\ reqs[s].kind = "verify_payment" /\ reqs[s].pc = "reload"
        /\ reqs[s].outcome = "rows0"
        /\ Row(reqs[s].orderId).status \in Terminal
        /\ Row(reqs[s].orderId).transaction_date = "t1"
        /\ reqs[s].stmt.transactionTime = "t2"

\* C30: on every server of the repository, every step keeps every row and
\* leaves its merchant_order_id, amount, name, email, phone and course
\* reference as they were.
DescriptiveColumnsFrozen ==
    [][ \A r \in orders :
          \E q \in orders' :
             /\ q.id = r.id
             /\ q.merchant_order_id = r.merchant_order_id
             /\ q.amount_paise = r.amount_paise
             /\ q.user_name = r.user_name
             /\ q.email = r.email
             /\ q.phone_number = r.phone_number
             /\ q.course_id = r.course_id ]_vars

\* C31: create_order waits for the gateway only after its createPendingOrder
\* call returned, with the order's row in the table; when that call fails,
\* the same step answers 500, the table is unchanged and the handler never
\* reaches the gateway call.
PendingRowBeforeGateway ==
    /\ [](\A s \in Slots :
            (reqs[s].kind = "create_order" /\ reqs[s].pc = "gateway")
            => /\ reqs[s].outcome \in {"rows1", "rows0"}
               /\ RowsOf(orders, reqs[s].orderId) # {})
    /\ [][ \A s \in Slots :
             ( /\ reqs[s].kind = "create_order" /\ reqs[s].pc = "insert"
               /\ reqs'[s].outcome = "unavailable" )
             => /\ reqs'[s].pc = "done"
                /\ reqs'[s].response = 500
                /\ orders' = orders ]_vars

C31Witness ==
    \E s \in Slots :
        /\ reqs[s].kind = "create_order" /\ reqs[s].pc = "done"
        /\ reqs[s].outcome = "unavailable"
        /\ reqs[s].response = 500
        /\ RowsOf(orders, reqs[s].orderId) = {}

\* create_order has answered 500 after its INSERT added the row: the gateway
\* call failed
GatewayCreateFailed(r) ==
    /\ r.kind = "create_order" /\ r.pc = "done"
    /\ r.outcome = "rows1"
    /\ r.response = 500

\* C39: when the gateway call of create_order fails after createPendingOrder
\* added the row, the step that answers 500 leaves the table as it was, so
\* the row stays, and a row that was PENDING with order_number null is
\* still so.
FailedGatewayKeepsPendingRow ==
    [][ \A s \in Slots :
          ( /\ reqs[s].kind = "create_order" /\ reqs[s].pc = "gateway"
            /\ GatewayCreateFailed(reqs'[s]) )
          => /\ orders' = orders
             /\ RowsOf(orders', reqs[s].orderId) # {}
             /\ Row(reqs[s].orderId).status = "PENDING"
                => LET after == getOrderByMerchantId(orders', reqs[s].orderId) IN
                   after.status = "PENDING" /\ after.order_number = NULL ]_vars

C39Witness ==
    \E s \in Slots :
        /\ GatewayCreateFailed(reqs[s])
        /\ Row(reqs[s].orderId).status = "PENDING"
        /\ Row(reqs[s].orderId).order_number = NULL

\* C33: when the UPDATE of an authenticated webhook is executed and the
\* table has no row for its order id, the table stays exactly as it was (no
\* row added, none changed), the statement reports zero rows and the webhook
\* is answered 200.
UnknownOrderUntouched ==
    [][ \A s \in Slots :
          ( /\ reqs[s].kind = "webhook" /\ reqs[s].authentic
            /\ reqs[s].pc = "update" /\ reqs'[s].pc = "done"
            /\ reqs'[s].outcome # "unavailable"
            /\ RowsOf(orders, reqs[s].orderId) = {} )
          => /\ orders' = orders
             /\ reqs'[s].outcome = "rows0"
             /\ reqs'[s].response = 200 ]_vars

\* a success notification for an unknown order was acknowledged while
\* another order's row is in the table
C33Witness ==
    \E s \in Slots :
        /\ reqs[s].kind = "webhook" /\ reqs[s].authentic
        /\ reqs[s].pc = "done" /\ reqs[s].response = 200
        /\ reqs[s].outcome = "rows0"
        /\ reqs[s].stmt.status = "SUCCESS"
        /\ RowsOf(orders, reqs[s].orderId) = {}
        /\ orders # {}

\* an authenticated PAYMENT_SUCCESS_WEBHOOK whose payment_status is present
\* and is not SUCCESS
UnpaidSuccessNotification(r) ==
    /\ Notified(r, {"PAYMENT_SUCCESS_WEBHOOK"})
    /\ r.paymentStatus \notin {"SUCCESS", NULL}

\* C34: on every Cashfree server, when the UPDATE of an authenticated
\* PAYMENT_SUCCESS_WEBHOOK whose payment_status is not SUCCESS is executed
\* on a PENDING order, the order becomes FAILED; and the UPDATE of a
\* PAYMENT_SUCCESS_WEBHOOK executed on a FAILED order leaves the table as it
\* was.
UnpaidSuccessMarksFailed ==
    [][ \A s \in Slots :
          ( /\ reqs[s].kind = "webhook" /\ reqs[s].pc = "update"
            /\ reqs'[s].pc = "done" /\ reqs'[s].outcome # "unavailable" )
          => /\ ( UnpaidSuccessNotification(reqs[s])
                  /\ Row(reqs[s].orderId).status = "PENDING" )
                => getOrderByMerchantId(orders', reqs[s].orderId).status = "FAILED"
             /\ ( Notified(reqs[s], {"PAYMENT_SUCCESS_WEBHOOK"})
                  /\ Row(reqs[s].orderId).status = "FAILED" )
                => orders' = orders ]_vars

\* C32: whenever verify_payment, its UPDATE having been executed by the
\* database, answers verified: true, the order in the answer has status
\* SUCCESS and an order_number.
VerifiedMeansSuccess ==
    \A s \in Slots :
        ( /\ reqs[s].kind = "verify_payment" /\ reqs[s].pc = "done"
          /\ reqs[s].response = 200
          /\ reqs[s].reply.verified = "true"
          /\ reqs[s].outcome # "unavailable" )
        => /\ reqs[s].reply.order.status = "SUCCESS"
           /\ reqs[s].reply.order.order_number # NULL

\* the order_number handler r generated for its SUCCESS statement is held
\* by another order
Collides(r) ==
    /\ r.stmt.status = "SUCCESS"
    /\ \E q \in orders : /\ q.merchant_order_id # r.orderId
                         /\ q.order_number = r.stmt.orderNumber

\* C35: when the UPDATE to SUCCESS of a webhook or of verify_payment is
\* executed on a PENDING order with a generated order_number that another
\* order holds, the table stays as it was (the order PENDING with
\* order_number null, the other order untouched), and the handler goes on
\* as after any UPDATE: the webhook is answered 200, verify_payment reloads
\* the order.
CollisionLeavesPending ==
    [][ \A s \in Slots :
          ( /\ reqs[s].kind \in {"webhook", "verify_payment"}
            /\ reqs[s].pc = "update" /\ reqs'[s].pc # "update"
            /\ Collides(reqs[s])
            /\ Row(reqs[s].orderId).status = "PENDING" )
          => /\ orders' = orders
             /\ getOrderByMerchantId(orders', reqs[s].orderId).order_number = NULL
             /\ reqs'[s].outcome \in {"error", "unavailable"}
             /\ reqs[s].kind = "webhook"
                => reqs'[s].pc = "done" /\ reqs'[s].response = 200
             /\ reqs[s].kind = "verify_payment" => reqs'[s].pc = "reload" ]_vars

\* verify_payment answered verified: true with the order still PENDING after
\* its UPDATE was refused
C35Witness ==
    \E s \in Slots :
        /\ reqs[s].kind = "verify_payment" /\ reqs[s].pc = "done"
        /\ reqs[s].outcome = "error"
        /\ reqs[s].response = 200
        /\ reqs[s].reply.verified = "true"
        /\ reqs[s].reply.order.status = "PENDING"
        /\ reqs[s].reply.order.order_number = NULL

\* verify_payment found no row at its lookup and took the fallback branch
InFallback(r) ==
    /\ r.kind = "verify_payment"
    /\ \/ r.pc = "insert"
       \/ r.pc = "update" /\ r.outcome \in {"rows0", "rows1"}

\* C36: when the fallback createPendingOrder of verify_payment is executed
\* and the table meanwhile has a row for the order, the table stays as it
\* was (no second row, no reset to PENDING) and the INSERT reports zero
\* rows; and when the UPDATE that follows is executed on an order that is
\* SUCCESS or FAILED, the table stays as it was.
FallbackIsRaceSafe ==
    [][ \A s \in Slots :
          InFallback(reqs[s])
          => /\ ( /\ reqs[s].pc = "insert" /\ reqs'[s].pc = "update"
                  /\ RowsOf(orders, reqs[s].orderId) # {} )
                => orders' = orders /\ reqs'[s].outcome = "rows0"
             /\ ( /\ reqs[s].pc = "update" /\ reqs'[s].pc = "reload"
                  /\ Row(reqs[s].orderId).status \in Terminal )
                => orders' = orders ]_vars

\* the fallback INSERT found the row another request had created and a
\* webhook had marked FAILED; the UPDATE to SUCCESS is about to be executed
C36Witness ==
    \E s \in Slots :
        /\ InFallback(reqs[s])
        /\ reqs[s].pc = "update"
        /\ reqs[s].outcome = "rows0"
        /\ reqs[s].stmt.status = "SUCCESS"
        /\ Row(reqs[s].orderId).status = "FAILED"
        /\ Row(reqs[s].orderId).order_number = NULL

\* C37: a row whose status is SUCCESS or FAILED is in the table, with every
\* column as it was, after every step of a webhook, of verify_payment and of
\* create_order.
TerminalRowFrozen ==
    [][ \A r \in orders : r.status \in Terminal => r \in orders' ]_vars

\* a createPendingOrder call and a later UPDATE with another transaction
\* time were executed on an order that was already FAILED
C37Witness ==
    \E s, t \in Slots :
        /\ reqs[s].kind = "create_order" /\ reqs[s].pc = "gateway"
        /\ reqs[s].outcome = "rows0"
        /\ reqs[t].kind = "verify_payment" /\ reqs[t].pc = "reload"
        /\ reqs[t].outcome = "rows0"
        /\ reqs[t].orderId = reqs[s].orderId
        /\ Row(reqs[s].orderId).status = "FAILED"
        /\ Row(reqs[s].orderId).transaction_date # NULL

\* handler s's INSERT or UPDATE is executed in this step
Writes(s) ==
    /\ reqs[s].pc \in {"insert", "update"}
    /\ reqs'[s] # reqs[s]

\* C38: a step in which the database executes the INSERT or UPDATE of a
\* request leaves every row of another merchant_order_id as it was and adds
\* no row for another merchant_order_id; every other step leaves the table
\* as it was.
OtherOrdersUntouched ==
    [][ /\ \A s \in Slots :
             Writes(s)
             => /\ \A r \in orders :
                     r.merchant_order_id # reqs[s].orderId => r \in orders'
                /\ \A q \in orders' :
                     q.merchant_order_id # reqs[s].orderId => q \in orders
        /\ (\A s \in Slots : ~Writes(s)) => orders' = orders ]_vars

\* a success notification for ORD-b has just committed while ORD-a is
\* PENDING in the same table
C38Witness ==
    \E s \in Slots :
        /\ reqs[s].kind = "webhook" /\ reqs[s].pc = "done"
        /\ reqs[s].outcome = "rows1"
        /\ reqs[s].orderId = "ORD-b"
        /\ Row("ORD-b").status = "SUCCESS"
        /\ Row("ORD-a").status = "PENDING"
        /\ Row("ORD-a").order_number = NULL

====
